---- MODULE Spec2Model ----
(***************************************************************************)
(* Model of wdl-lint's Fixer (src/wdl-lint/src/fix.rs): a text buffer that *)
(* is patched by Replacements given in original-text coordinates, with a   *)
(* 0-indexed Fenwick tree of signed deltas translating original indices to *)
(* indices of the current buffer.                                          *)
(*                                                                         *)
(* Text is modelled as a sequence of one-byte characters, so every index   *)
(* is a char boundary.  A Rust panic is modelled by panicked = TRUE; a     *)
(* panicked process takes no further step.                                 *)
(***************************************************************************)
EXTENDS Integers, Sequences, FiniteSets, Bags, TLC

VARIABLES
    orig,       \* the String the Fixer was created from (history)
    value,      \* Fixer.value
    tree,       \* Fixer.tree, the inner array of the FenwickTree<i32>
    panicked,   \* TRUE once an expect/assert/slice check has failed
    recorded,   \* bag of <<index, diff>>, one copy per tree.add_at call (history)
    inRange,    \* TRUE while every Replacement applied had start <= end <= len(orig) (history)
    reps,       \* the Vec<Replacement> handed to apply_replacements (history)
    order,      \* indices of reps in the order apply_replacements applied them (history)
    pc,         \* "ready" before apply_replacements is called, "done" after
    cell,       \* SHELLCHECK_EXISTS: "uninit", "running" (its closure runs), "yes" or "no"
    probes,     \* ids of the sections whose visit called program_exists, in order (history)
    spawns,     \* number of Command::spawn calls made so far (history)
    vpc,        \* per visitor: where it stands in command_section
    cur,        \* per visitor: the section it visits, with what the visit computed so far
    visits,     \* number of command sections entered in the run; the k-th has id k
    submitted,  \* per visitor: the diagnostics handed to state.exceptable_add, in order
    array,      \* chunk: the elements of the Array argument
    size,       \* chunk: the Int argument
    outcome,    \* chunk: what the call returned, "pending" before it
    callee,     \* the standard-library function called: "select_first", "read_lines", "unzip"
    arguments,  \* the arguments of that call (for read_lines: the content of the file)
    returned,   \* what that call returned, "pending" before it
    stream,     \* TokenStream<PreToken>: the Vec of tokens pushed so far
    before,     \* the stream as it was when the last method was called (history)
    method,     \* the last method called on the stream and what it returned (history)
    section,    \* the parts of the command section whose line map is built
    line_map,   \* the HashMap line number -> offset, "line_num" and "on_same_line"
    finding,    \* the ShellCheckDiagnostic being processed
    handled,    \* what processing that finding did, "pending" before it
    rpc,        \* where run_shellcheck stands
    child,      \* the spawned process and its piped stdin
    events,     \* what run_shellcheck did to the process, in order (history)
    ret         \* what run_shellcheck returned, "pending" before it

fixerVars == <<orig, value, tree, panicked, recorded, inRange, reps, order, pc>>

shellVars == <<cell, probes, spawns, vpc, cur, visits, submitted>>

chunkVars == <<array, size, outcome>>

stdVars == <<callee, arguments, returned>>

streamVars == <<stream, before, method>>

mapVars == <<section, line_map, finding, handled>>

procVars == <<rpc, child, events, ret>>

vars == <<fixerVars, shellVars, chunkVars, stdVars, streamVars, mapVars, procVars>>

\* What a step of the fixer, of the shellcheck rule, of chunk, ... leaves alone.
notFixer == <<shellVars, chunkVars, stdVars, streamVars, mapVars, procVars>>

notShell == <<fixerVars, chunkVars, stdVars, streamVars, mapVars, procVars>>

notChunk == <<fixerVars, shellVars, stdVars, streamVars, mapVars, procVars>>

notStd == <<fixerVars, shellVars, chunkVars, streamVars, mapVars, procVars>>

notStream == <<fixerVars, shellVars, chunkVars, stdVars, mapVars, procVars>>

notMap == <<fixerVars, shellVars, chunkVars, stdVars, streamVars, procVars>>

notProc == <<fixerVars, shellVars, chunkVars, stdVars, streamVars, mapVars>>

(***************************************************************************)
(* Bounds of the model.                                                    *)
(***************************************************************************)
\* longest original text
MaxLen == 3
\* apply_replacement calls in one run of Spec
MaxReps == 2
\* longest original text in a run of SpecBatch
MaxBatchLen == 1
\* longest Vec<Replacement> handed to apply_replacements
MaxBatch == 2
\* precedences are drawn from 1..MaxPrec
MaxPrec == 2

I32Max == 2147483647

Letters == <<"a", "b", "c", "d", "e", "f">>

\* The original texts: the first n letters, so that a character names its
\* original position.
Originals == { SubSeq(Letters, 1, n) : n \in 0..MaxLen }

\* Replacement strings of apply_replacement calls: a deletion and an insertion.
Texts == { <<>>, <<"X", "Y">> }

\* Replacement strings of a batch: a deletion and an insertion.
BatchTexts == { <<>>, <<"X">> }

InsertionPoint == {"BeforeStart", "AfterEnd"}

\* Replacement::new stores its arguments as they are.
Replacement(start, end, insertion_point, replacement, precedence) ==
    [start |-> start, end |-> end, insertion_point |-> insertion_point,
     replacement |-> replacement, precedence |-> precedence]

(***************************************************************************)
(* FenwickTree<i32> of the ftree crate, as Fixer uses it.  The inner array *)
(* is 0-indexed; slot k holds the sum of a block of elements ending at k.  *)
(* prefix_sum(index, 0) sums the elements before index (test_fixer_indel   *)
(* inserts at 18 after a delta was recorded at 18), and add_at past the    *)
(* last slot is not an error (test_fixer_insertion records at len + 1).    *)
(***************************************************************************)
RECURSIVE LowBit(_)
\* The value of the lowest set bit of n > 0.
LowBit(n) == IF n % 2 = 1 THEN 1 ELSE 2 * LowBit(n \div 2)

\* FenwickTree::from_iter(vec![0; n]): n slots, all zero.
FenwickNew(n) == [k \in 0..(n - 1) |-> 0]

RECURSIVE AddAtAssign(_, _, _)
\* add_at storing diff in the slots instead of adding it.
AddAtAssign(t, index, diff) ==
    IF index \in DOMAIN t
    THEN AddAtAssign([t EXCEPT ![index] = diff], index + LowBit(index + 1), diff)
    ELSE t

RECURSIVE AddAt(_, _, _)
\* add_at: while the index is a slot, add diff to it and move to
\* index | (index + 1); an index past the last slot changes nothing.
AddAt(t, index, diff) ==
    IF index \in DOMAIN t
    THEN AddAt([t EXCEPT ![index] = @ + diff], index + LowBit(index + 1), diff)
    ELSE t

RECURSIVE SumFirst(_, _)
SumFirst(t, n) ==
    IF n = 0 THEN 0 ELSE t[n - 1] + SumFirst(t, n - LowBit(n))

\* prefix_sum that includes the element at index itself.
PrefixSumInclusive(t, index) ==
    IF index \in DOMAIN t THEN SumFirst(t, index + 1) ELSE SumFirst(t, index)

RECURSIVE PrefixSum(_, _)
\* prefix_sum(index, 0): the sum of the first index elements, walking
\* index &= index - 1 down to 0.  It asserts index <= number of slots.
PrefixSum(t, index) ==
    IF index = 0 THEN 0
    ELSE t[index - 1] + PrefixSum(t, index - LowBit(index))

PrefixSumOk(t, index) == index <= Cardinality(DOMAIN t)

(***************************************************************************)
(* Fixer                                                                   *)
(***************************************************************************)
\* transform returns a value iff the index fits into i32, prefix_sum's
\* assertion holds and the sum fits into usize.
TransformOk(t, index) ==
    /\ index <= I32Max
    /\ PrefixSumOk(t, index)
    /\ index + PrefixSum(t, index) >= 0

Transform(t, index) == index + PrefixSum(t, index)

\* String::replace_range(a..b, s); the caller has checked a <= b <= Len(v).
ReplaceRange(v, a, b, s) == SubSeq(v, 1, a) \o s \o SubSeq(v, b + 1, Len(v))

\* The arms of the match swapped.
InsertAtSwapped(rep) ==
    IF rep.insertion_point = "BeforeStart" THEN rep.end + 1 ELSE rep.start

\* let insert_at = match rep.insertion_point { .. }
InsertAt(rep) ==
    IF rep.insertion_point = "BeforeStart" THEN rep.start ELSE rep.end + 1

Shift(rep) == Len(rep.replacement) - (rep.end - rep.start)

\* apply_replacement panics before it touches the tree when
\*  - transform(old_start) or transform(old_end) panics, or
\*  - old_end < old_start: the subtraction old_end - old_start either trips
\*    the overflow check or wraps to a value above i32::MAX, on which
\*    try_from(..).expect panics, or
\*  - the length of the range does not fit into i32.
PanicsBeforeAdd(t, rep) ==
    \/ ~TransformOk(t, rep.start)
    \/ ~TransformOk(t, rep.end)
    \/ rep.end < rep.start
    \/ rep.end - rep.start > I32Max

\* apply_replacement on the fixer f (fields value, tree, panicked): add_at is done
\* before replace_range, which panics when the translated range is
\* decreasing or ends past the buffer.
ApplyRep(f, rep) ==
    IF PanicsBeforeAdd(f.tree, rep)
    THEN [f EXCEPT !.panicked = TRUE]
    ELSE LET new_start == Transform(f.tree, rep.start)
             new_end == Transform(f.tree, rep.end)
             tree2 == AddAt(f.tree, InsertAt(rep), Shift(rep))
         IN  IF new_start > new_end \/ new_end > Len(f.value)
             THEN [f EXCEPT !.tree = tree2, !.panicked = TRUE]
             ELSE [f EXCEPT
                     !.value = ReplaceRange(f.value, new_start, new_end, rep.replacement),
                     !.tree = tree2]

\* Fixer::new; recorded is the history of add_at calls.
NewFixer(text) ==
    [value |-> text, tree |-> FenwickNew(Len(text) + 1), panicked |-> FALSE,
     recorded |-> EmptyBag]

WellFormed(text, rep) == rep.start <= rep.end /\ rep.end <= Len(text)

\* What a caller may pass: every start and end up to two past the end.
Reps(text) ==
    { Replacement(s, e, ip, txt, 1) :
        s \in 0..(Len(text) + 2), e \in 0..(Len(text) + 2),
        ip \in InsertionPoint, txt \in Texts }

(***************************************************************************)
(* The parts of the state a specification does not exercise stay as they   *)
(* are at process start.                                                   *)
(***************************************************************************)
\* The threads that lint documents; each one owns its visitor and its
\* Diagnostics, and all share SHELLCHECK_EXISTS.
Visitors == {"v1", "v2"}

\* What a visitor holds before it has entered any command section.
NoVisit ==
    [sec |-> [id |-> 0, mixed |-> FALSE, inputs |-> {}, privates |-> {}, parts |-> <<>>],
     base |-> 0, seen |-> "none", sanitized |-> "not called", cmd_decls |-> {},
     decls |-> {}, command |-> <<>>, spawned |-> FALSE,
     env |-> [tag |-> "none"], result |-> [tag |-> "none"]]

FixerIdle ==
    /\ orig = <<>>
    /\ value = <<>>
    /\ tree = FenwickNew(1)
    /\ panicked = FALSE
    /\ recorded = EmptyBag
    /\ inRange = TRUE
    /\ reps = <<>>
    /\ order = <<>>
    /\ pc = "ready"

ShellIdle ==
    /\ cell = "uninit"
    /\ probes = <<>>
    /\ spawns = 0
    /\ vpc = [v \in Visitors |-> "idle"]
    /\ cur = [v \in Visitors |-> NoVisit]
    /\ visits = 0
    /\ submitted = [v \in Visitors |-> <<>>]

ChunkIdle ==
    /\ array = <<>>
    /\ size = 0
    /\ outcome = [tag |-> "pending"]

StdIdle ==
    /\ callee = "none"
    /\ arguments = <<>>
    /\ returned = [tag |-> "pending"]

StreamIdle ==
    /\ stream = <<>>
    /\ before = <<>>
    /\ method = [name |-> "new", ret |-> "()"]

MapIdle ==
    /\ section = <<>>
    /\ line_map = [entries |-> <<>>, line_num |-> 1, on_same_line |-> FALSE]
    /\ finding = [line |-> 0, column |-> 0, end_line |-> 0, end_column |-> 0, skip |-> FALSE]
    /\ handled = [tag |-> "pending"]

ProcIdle ==
    /\ rpc = "idle"
    /\ child = [tag |-> "none"]
    /\ events = <<>>
    /\ ret = [tag |-> "pending"]

\* Everything outside the fixer, the shellcheck visit and chunk.
RestIdle == StdIdle /\ StreamIdle /\ MapIdle /\ ProcIdle

Init ==
    /\ orig \in Originals
    /\ value = orig
    /\ tree = FenwickNew(Len(orig) + 1)
    /\ panicked = FALSE
    /\ recorded = EmptyBag
    /\ inRange = TRUE
    /\ reps = <<>>
    /\ order = <<>>
    /\ pc = "ready"
    /\ ShellIdle
    /\ ChunkIdle
    /\ RestIdle

\* The fixer is alive and the run has calls left.
CanApply == ~panicked /\ BagCardinality(recorded) < MaxReps

\* fixer.apply_replacement(&rep)
ApplyReplacement(rep) ==
    /\ CanApply
    /\ \E f \in {ApplyRep([value |-> value, tree |-> tree, panicked |-> FALSE], rep)} :
           /\ value' = f.value
           /\ tree' = f.tree
           /\ panicked' = f.panicked
           /\ recorded' = IF PanicsBeforeAdd(tree, rep)
                          THEN recorded
                          ELSE recorded (+) SetToBag({<<InsertAt(rep), Shift(rep)>>})
    /\ inRange' = (inRange /\ WellFormed(orig, rep))
    /\ UNCHANGED <<orig, reps, order, pc, notFixer>>

\* fixer.transform(index): returns Transform(tree, index) or panics; &self is
\* not changed.
TransformCall(index) ==
    /\ ~panicked
    /\ panicked' = ~TransformOk(tree, index)
    /\ UNCHANGED <<orig, value, tree, recorded, inRange, reps, order, pc, notFixer>>

\* adj_range(s..e) returns transform(s)..transform(e), and adj_range_inc(s..=e)
\* returns transform(s)..=transform(e).
AdjRangeOk(t, s, e) == TransformOk(t, s) /\ TransformOk(t, e)

AdjRangeOf(t, s, e) == <<Transform(t, s), Transform(t, e)>>

\* fixer.adj_range(s..e)
AdjRange(s, e) ==
    /\ ~panicked
    /\ panicked' = ~AdjRangeOk(tree, s, e)
    /\ UNCHANGED <<orig, value, tree, recorded, inRange, reps, order, pc, notFixer>>

\* fixer.adj_range_inc(s..=e)
AdjRangeInc(s, e) ==
    /\ ~panicked
    /\ panicked' = ~AdjRangeOk(tree, s, e)
    /\ UNCHANGED <<orig, value, tree, recorded, inRange, reps, order, pc, notFixer>>

Next ==
    \/ CanApply /\ \E rep \in Reps(orig) : ApplyReplacement(rep)
    \/ ~panicked /\ \E i \in 0..(Len(orig) + 2) : TransformCall(i)
    \/ ~panicked /\ \E e \in 0..(Len(orig) + 2) : \E s \in 0..e : AdjRange(s, e)
    \/ ~panicked /\ \E e \in 0..(Len(orig) + 2) : \E s \in 0..e : AdjRangeInc(s, e)

Spec == Init /\ [][Next]_vars

(***************************************************************************)
(* apply_replacements                                                      *)
(***************************************************************************)
RECURSIVE InsertByKey(_, _, _)
\* Insert index k into the sequence s of indices, sorted by precedence,
\* behind every index whose precedence is not greater: a stable insertion.
InsertByKey(list, s, k) ==
    IF s = <<>> THEN <<k>>
    ELSE IF list[Head(s)].precedence <= list[k].precedence
         THEN <<Head(s)>> \o InsertByKey(list, Tail(s), k)
         ELSE <<k>> \o s

RECURSIVE SortByKey(_, _)
\* reps.sort_by_key(|r| r.precedence): the stable ascending sort of the
\* first n indices of list.
SortByKey(list, n) ==
    IF n = 0 THEN <<>> ELSE InsertByKey(list, SortByKey(list, n - 1), n)

Reverse(s) == [k \in 1..Len(s) |-> s[Len(s) + 1 - k]]

\* A stable sort by descending precedence, walked forwards.
RECURSIVE InsertByKeyDesc(_, _, _)
InsertByKeyDesc(list, s, k) ==
    IF s = <<>> THEN <<k>>
    ELSE IF list[Head(s)].precedence >= list[k].precedence
         THEN <<Head(s)>> \o InsertByKeyDesc(list, Tail(s), k)
         ELSE <<k>> \o s

RECURSIVE SortByKeyDesc(_, _)
SortByKeyDesc(list, n) ==
    IF n = 0 THEN <<>> ELSE InsertByKeyDesc(list, SortByKeyDesc(list, n - 1), n)

ApplyOrderStableDesc(list) == SortByKeyDesc(list, Len(list))

\* The sort left out: the list walked backwards as it came.
ApplyOrderUnsorted(list) == Reverse([k \in 1..Len(list) |-> k])

\* The indices of list in the order apply_replacements applies them:
\* reps.sort_by_key(..); reps.iter().rev()
ApplyOrder(list) == Reverse(SortByKey(list, Len(list)))

\* One apply_replacement on the fixer f, the add_at call recorded.
StepRep(f, rep) ==
    [ApplyRep(f, rep) EXCEPT
        !.recorded = IF PanicsBeforeAdd(f.tree, rep)
                     THEN @
                     ELSE @ (+) SetToBag({<<InsertAt(rep), Shift(rep)>>})]

RECURSIVE ApplyAll(_, _)
\* for_each(|r| self.apply_replacement(r)) over the sequence s; a panic
\* ends the walk.
ApplyAll(f, s) ==
    IF s = <<>> \/ f.panicked THEN f ELSE ApplyAll(StepRep(f, Head(s)), Tail(s))

\* Fixer::new(text).apply_replacements(list)
BatchResult(text, list) ==
    LET ord == ApplyOrder(list)
    IN  ApplyAll(NewFixer(text), [k \in 1..Len(list) |-> list[ord[k]]])

BatchOriginals == { SubSeq(Letters, 1, n) : n \in 0..MaxBatchLen }

\* The Replacements of a batch: ranges within the original text.
BatchReps(text) ==
    { Replacement(s, e, ip, txt, prec) :
        s \in 0..Len(text), e \in 0..Len(text),
        ip \in InsertionPoint, txt \in BatchTexts, prec \in 1..MaxPrec }

WellFormedReps(text) == { r \in BatchReps(text) : WellFormed(text, r) }

InitBatch ==
    /\ orig \in BatchOriginals
    /\ value = orig
    /\ tree = FenwickNew(Len(orig) + 1)
    /\ panicked = FALSE
    /\ recorded = EmptyBag
    /\ inRange = TRUE
    /\ reps = <<>>
    /\ order = <<>>
    /\ pc = "ready"
    /\ ShellIdle
    /\ ChunkIdle
    /\ RestIdle

\* The Vec is not handed over yet and may grow.
CanPush == pc = "ready" /\ Len(reps) < MaxBatch

\* The caller puts one more Replacement into the Vec it will hand over.
Push(rep) ==
    /\ CanPush
    /\ reps' = Append(reps, rep)
    /\ UNCHANGED <<orig, value, tree, panicked, recorded, inRange, order, pc, notFixer>>

\* fixer.apply_replacements(reps) on the new fixer
ApplyReplacements ==
    /\ pc = "ready"
    /\ \E f \in {BatchResult(orig, reps)} :
           /\ value' = f.value
           /\ tree' = f.tree
           /\ panicked' = f.panicked
           /\ recorded' = f.recorded
    /\ inRange' = \A k \in DOMAIN reps : WellFormed(orig, reps[k])
    /\ order' = ApplyOrder(reps)
    /\ pc' = "done"
    /\ UNCHANGED <<orig, reps, notFixer>>

NextBatch ==
    \/ CanPush /\ \E rep \in WellFormedReps(orig) : Push(rep)
    \/ ApplyReplacements

SpecBatch == InitBatch /\ [][NextBatch]_vars

(***************************************************************************)
(* Properties of transform and of the tree, checked under Spec.            *)
(***************************************************************************)
Indices == 0..Len(orig)

RECURSIVE SumOver(_, _)
\* The sum of d * (copies of <<b, d>> in bag) over the pairs of S.
SumOver(bag, S) ==
    IF S = {} THEN 0
    ELSE LET p == CHOOSE x \in S : TRUE
         IN  p[2] * CopiesIn(p, bag) + SumOver(bag, S \ {p})

\* The sum of the deltas recorded at boundaries below i.
DeltaSumBelow(i) == SumOver(recorded, { p \in BagToSet(recorded) : p[1] < i })

\* The sum of the deltas recorded at boundaries up to and including i.
DeltaSumUpTo(i) == SumOver(recorded, { p \in BagToSet(recorded) : p[1] <= i })

\* C3 as stated: transform(i) is i plus the deltas recorded at boundaries
\* <= i, a delta recorded at i itself included.
C3_TransformIncludesOwnBoundary ==
    \A i \in Indices :
        TransformOk(tree, i) => Transform(tree, i) = i + DeltaSumUpTo(i)

\* C3 (amended): whenever transform(i) returns, it returns i plus the sum of
\* the deltas recorded at boundaries strictly below i; a delta recorded at
\* boundary i itself is not included.
C3_TransformSumsBelow ==
    \A i \in 0..(Len(orig) + 1) :
        TransformOk(tree, i) => Transform(tree, i) = i + DeltaSumBelow(i)

\* A non-zero delta is recorded at an in-range boundary b: transform(b) does
\* not see it and transform(b + 1) does.
C3_Witness ==
    /\ ~panicked
    /\ \E p \in BagToSet(recorded) :
          /\ p[2] # 0
          /\ p[1] < Len(orig)
          /\ BagCardinality(recorded) = 1
          /\ TransformOk(tree, p[1]) /\ Transform(tree, p[1]) = p[1]
          /\ TransformOk(tree, p[1] + 1) /\ Transform(tree, p[1] + 1) = p[1] + 1 + p[2]

\* C5 as stated: after apply_replacement calls whose ranges lie within the
\* original buffer, transform (hence adj_range and adj_range_inc) returns a
\* value for every original index 0..len.
C5_InRangeNeverFails ==
    (~panicked /\ inRange) =>
        \A i \in Indices, j \in Indices :
            TransformOk(tree, i) /\ AdjRangeOk(tree, i, j)

\* C6 as stated: transform is non-decreasing over the in-range indices, so
\* adj_range never returns a range whose start exceeds its end.
C6_Monotonic ==
    (~panicked /\ inRange) =>
        \A i \in Indices, j \in Indices :
            (i <= j /\ AdjRangeOk(tree, i, j)) =>
                AdjRangeOf(tree, i, j)[1] <= AdjRangeOf(tree, i, j)[2]

\* The boundary at which the delta of a replacement is recorded: start for
\* BeforeStart, end + 1 for AfterEnd.
Boundary(rep) ==
    CASE rep.insertion_point = "BeforeStart" -> rep.start
      [] rep.insertion_point = "AfterEnd" -> rep.end + 1

\* C7: every apply_replacement step whose delta is recorded at a boundary
\* greater than i leaves transform(i) as it was: it returns the same value,
\* or panics as before.
C7_FrameAboveBoundary ==
    CanApply =>
        \A rep \in Reps(orig) :
            LET f == ApplyRep([value |-> value, tree |-> tree, panicked |-> FALSE], rep)
            IN  \A i \in 0..(Len(orig) + 1) :
                    Boundary(rep) > i =>
                        /\ TransformOk(f.tree, i) = TransformOk(tree, i)
                        /\ TransformOk(tree, i) => Transform(f.tree, i) = Transform(tree, i)

\* A non-zero delta is recorded in a slot above 0 and the fixer lives on.
C7_Witness ==
    /\ ~panicked
    /\ \E p \in BagToSet(recorded) : p[2] # 0 /\ p[1] > 0 /\ p[1] \in DOMAIN tree

RECURSIVE Build(_, _)
\* The tree after the add_at calls of the sequence s on the tree t.
Build(t, s) ==
    IF s = <<>> THEN t ELSE Build(AddAt(t, Head(s)[1], Head(s)[2]), Tail(s))

\* Every ordering of the add_at calls recorded so far.
Orderings(bag) ==
    { s \in [1..BagCardinality(bag) -> BagToSet(bag)] :
        \A p \in BagToSet(bag) :
            Cardinality({ k \in DOMAIN s : s[k] = p }) = CopiesIn(p, bag) }

\* C8: transform depends only on the multiset of recorded (boundary, delta)
\* pairs: the tree built by any ordering of the recorded updates gives the
\* same transform as the tree the run built.
C8_OrderIndependent ==
    \A s \in Orderings(recorded) :
        LET t == Build(FenwickNew(Len(orig) + 1), s)
        IN  \A i \in 0..(Len(orig) + 1) :
                /\ TransformOk(t, i) = TransformOk(tree, i)
                /\ Transform(t, i) = Transform(tree, i)

\* Two different updates that share a slot of the tree have been recorded.
C8_Witness ==
    /\ BagCardinality(recorded) = 2
    /\ \E p \in BagToSet(recorded), q \in BagToSet(recorded) :
          /\ p[1] < q[1] /\ q[1] \in DOMAIN tree
          /\ p[2] # 0 /\ q[2] # 0 /\ p[2] # q[2]
          /\ Transform(tree, Len(orig)) = Len(orig) + p[2] + q[2]

\* C9 as stated: a Replacement with start > end or with end beyond the
\* original buffer is never applied without a fatal failure.
C9_MalformedIsFatal == ~inRange => panicked

(***************************************************************************)
(* Properties of apply_replacements, checked under SpecBatch.              *)
(***************************************************************************)
\* No two Replacements of the list overlap; adjacent ranges do not.
NonOverlapping(list) ==
    \A i \in DOMAIN list, j \in DOMAIN list :
        i < j => (list[i].end <= list[j].start \/ list[j].end <= list[i].start)

\* No two Replacements start at the same offset, so that "right-to-left by
\* original start offset" names one order.
DistinctStarts(list) ==
    \A i \in DOMAIN list, j \in DOMAIN list : i < j => list[i].start # list[j].start

RECURSIVE RightToLeft(_, _, _)
\* text after the Replacements of list with index in S are applied to it by
\* hand, the one with the greatest start first, each at its original range.
RightToLeft(text, list, S) ==
    IF S = {} THEN text
    ELSE LET k == CHOOSE x \in S : \A y \in S : list[y].start <= list[x].start
         IN  RightToLeft(
                 ReplaceRange(text, list[k].start, list[k].end, list[k].replacement),
                 list, S \ {k})

\* C1 as stated: for pairwise non-overlapping Replacements, whatever their
\* insertion points, apply_replacements yields the text obtained by applying
\* them by hand right-to-left by original start offset.
C1_BatchEqualsRightToLeft ==
    (pc = "done" /\ NonOverlapping(reps) /\ DistinctStarts(reps)) =>
        (~panicked /\ value = RightToLeft(orig, reps, DOMAIN reps))

DistinctPrecedences(list) ==
    \A i \in DOMAIN list, j \in DOMAIN list :
        i < j => list[i].precedence # list[j].precedence

\* The permutations of 1..n.
Perms(n) == { p \in [1..n -> 1..n] : \A i \in 1..n, j \in 1..n : p[i] = p[j] => i = j }

RECURSIVE OneAtATime(_, _, _)
\* apply_replacement called by hand on the fixer f for the Replacements of
\* list with index in S, the greatest precedence first.
OneAtATime(f, list, S) ==
    IF S = {} \/ f.panicked THEN f
    ELSE LET k == CHOOSE x \in S : \A y \in S : list[y].precedence <= list[x].precedence
         IN  OneAtATime(StepRep(f, list[k]), list, S \ {k})

\* C2: when the precedences are pairwise distinct, apply_replacements ends
\* with the same buffer (or the same panic) for every permutation of the list,
\* and that is the outcome of calling apply_replacement one at a time in
\* descending precedence order on a fresh Fixer over the same text.
C2_PermutationInvariant ==
    (pc = "done" /\ DistinctPrecedences(reps)) =>
        /\ \A p \in Perms(Len(reps)) :
              LET r == BatchResult(orig, [k \in 1..Len(reps) |-> reps[p[k]]])
              IN  r.value = value /\ r.panicked = panicked
        /\ LET h == OneAtATime(NewFixer(orig), reps, DOMAIN reps)
           IN  h.value = value /\ h.panicked = panicked

\* A batch of two with distinct precedences, given lowest first, for which
\* the order of application matters.
C2_Witness ==
    /\ pc = "done" /\ ~panicked
    /\ Len(reps) = 2
    /\ reps[1].precedence < reps[2].precedence
    /\ ApplyAll(NewFixer(orig), reps).value # value

\* The place of index k in the order of application.
Pos(ord, k) == CHOOSE n \in DOMAIN ord : ord[n] = k

\* C4 as stated: of two Replacements of equal precedence, the one earlier in
\* the input list is applied first.
C4_TiesInInputOrder ==
    pc = "done" =>
        \A i \in DOMAIN reps, j \in DOMAIN reps :
            (i < j /\ reps[i].precedence = reps[j].precedence) =>
                Pos(order, i) < Pos(order, j)

\* C4 (amended): of two Replacements of equal precedence, the one later in
\* the input list is applied first: ties are applied in reverse input order.
C4_TiesInReverseInputOrder ==
    pc = "done" =>
        \A i \in DOMAIN reps, j \in DOMAIN reps :
            (i < j /\ reps[i].precedence = reps[j].precedence) =>
                Pos(order, j) < Pos(order, i)

\* Two different Replacements of equal precedence have been applied, and
\* applying them in input order would have given another text.
C4_Witness ==
    /\ pc = "done" /\ ~panicked
    /\ Len(reps) = 2
    /\ reps[1].precedence = reps[2].precedence
    /\ ApplyAll(NewFixer(orig), reps).value # value

InsertTexts == { <<"A">>, <<"B", "C">> }

\* The zero-length replacements at position p.
Insertions(p) ==
    { Replacement(p, p, ip, txt, 1) : ip \in InsertionPoint, txt \in InsertTexts }

InitSeq ==
    /\ orig \in Originals
    /\ value = orig
    /\ tree = FenwickNew(Len(orig) + 1)
    /\ panicked = FALSE
    /\ recorded = EmptyBag
    /\ inRange = TRUE
    /\ \E p \in 0..Len(orig), q \in 0..Len(orig) :
           \E a \in Insertions(p), b \in Insertions(q) : reps = <<a, b>>
    /\ order = <<>>
    /\ pc = "ready"
    /\ ShellIdle
    /\ ChunkIdle
    /\ RestIdle

\* The calls made in the reverse of the order they are written in.
NextCallBackwards(list, done) == Len(list) - done

\* The statements run top to bottom: after done calls the next one is
\* call done + 1.
NextCall(list, done) == done + 1

\* The next fixer.apply_replacement(..) statement of the caller.
ApplyNext ==
    /\ ~panicked
    /\ Len(order) < Len(reps)
    /\ \E k \in {NextCall(reps, Len(order))} :
           /\ \E f \in {ApplyRep([value |-> value, tree |-> tree, panicked |-> FALSE], reps[k])} :
                  /\ value' = f.value
                  /\ tree' = f.tree
                  /\ panicked' = f.panicked
           /\ recorded' = IF PanicsBeforeAdd(tree, reps[k])
                          THEN recorded
                          ELSE recorded (+) SetToBag({<<InsertAt(reps[k]), Shift(reps[k])>>})
           /\ inRange' = (inRange /\ WellFormed(orig, reps[k]))
           /\ order' = Append(order, k)
    /\ UNCHANGED <<orig, reps, pc, notFixer>>

NextSeq == ApplyNext

SpecSeq == InitSeq /\ [][NextSeq]_vars

\* The caller wrote an AfterEnd insertion first and a BeforeStart insertion
\* at the same position second, and both calls are made.
AfterEndThenBeforeStart ==
    /\ Len(reps) = 2
    /\ Len(order) = 2
    /\ reps[1].insertion_point = "AfterEnd"
    /\ reps[2].insertion_point = "BeforeStart"
    /\ reps[1].start = reps[2].start

MaxSections == 3

SHELLCHECK_REFERENCED_UNASSIGNED == 2154

\* The declarations of the enclosing task: none, an input, a private one.
Tasks ==
    { [inputs |-> {}, privates |-> {}],
      [inputs |-> {"name"}, privates |-> {}],
      [inputs |-> {}, privates |-> {"name"}] }

TextPart(text) == [kind |-> "text", text |-> text]

PlaceholderPart(text) == [kind |-> "placeholder", text |-> text]

\* The parts of a command: plain text, or text followed by a placeholder.
PartLists ==
    { <<TextPart("echo hi")>>, <<TextPart("echo "), PlaceholderPart("~{name}")>> }

\* The command sections a visitor may be handed as the k-th of the run.
\* mixed: strip_whitespace() finds mixed indentation and returns None.
Sections(k) ==
    { [id |-> k, mixed |-> m, inputs |-> t.inputs, privates |-> t.privates, parts |-> ps] :
        m \in BOOLEAN, t \in Tasks, ps \in PartLists }

\* The sections of a run that looks at the probe only: no declarations.
PlainSections(k) ==
    { sec \in Sections(k) : sec.inputs = {} /\ sec.privates = {} /\ Len(sec.parts) = 1 }

\* What Alphanumeric.sample_string may return for the placeholder ~{name}:
\* any string of 7 - 3 letters and digits.
DummyVars == {"q7Xa", "Zk02"}

\* to_bash_var: the random string drawn for the placeholder.
ToBashVar(placeholder, drawn) == drawn

\* gather_task_declarations: the names of the input and private declarations.
GatherTaskDeclarations(sec) == sec.inputs \cup sec.privates

RECURSIVE SanitizeParts(_, _)
\* The for_each of sanitize_command over the stripped parts, every
\* placeholder getting the variable drawn.
SanitizeParts(parts, drawn) ==
    IF parts = <<>> THEN [command |-> <<>>, decls |-> {}]
    ELSE LET rest == SanitizeParts(Tail(parts), drawn)
             part == Head(parts)
         IN  IF part.kind = "text"
             THEN [command |-> <<part.text>> \o rest.command, decls |-> rest.decls]
             ELSE [command |-> <<"\"$", ToBashVar(part, drawn), "\"">> \o rest.command,
                   decls |-> {ToBashVar(part, drawn)} \cup rest.decls]

\* A command with mixed indentation is sanitized all the same.
StripWhitespaceAlways(sec) == TRUE

\* section.strip_whitespace() is Some(..) unless the indentation is mixed.
StripWhitespaceIsSome(sec) == ~sec.mixed

\* sanitize_command: None, or the sanitized text with the dummy variables.
SanitizeCommand(sec, drawn) ==
    IF StripWhitespaceIsSome(sec)
    THEN [some |-> TRUE] @@ SanitizeParts(sec.parts, drawn)
    ELSE [some |-> FALSE, command |-> <<>>, decls |-> {}]

Digit(d) == <<"0", "1", "2", "3", "4", "5", "6", "7", "8", "9">>[d + 1]

RECURSIVE Decimal(_)
\* format!("{}", n) of a number n >= 0: its decimal digits.
Decimal(n) == IF n < 10 THEN <<Digit(n)>> ELSE Decimal(n \div 10) \o <<Digit(n % 10)>>

\* A ShellCheckDiagnostic; message is the list of its whitespace-separated
\* tokens.  Line and columns are those of a line the line map holds.
Finding(code, message) == [code |-> code, level |-> "warning", message |-> message]

FindingCodes == {SHELLCHECK_REFERENCED_UNASSIGNED, 2086}

Messages ==
    { <<>> } \cup { <<t, "is", "referenced">> : t \in {"name", "q7Xa", "other"} }

Findings == { Finding(c, m) : c \in FindingCodes, m \in Messages }

\* The JSON arrays shellcheck may print: up to two findings.
FindingLists ==
    { <<>> } \cup { <<f>> : f \in Findings } \cup { <<f, g>> : f \in Findings, g \in Findings }

\* What the child may write to stdout: bytes that are no JSON, JSON of
\* another shape, or an array of findings.
Stdouts ==
    { [kind |-> "garbage", findings |-> <<>>], [kind |-> "object", findings |-> <<>>] }
        \cup { [kind |-> "array", findings |-> l] : l \in FindingLists }

ExitCodes == {0, 1, 2, 127}

\* What can happen to one run of the child process.
Envs ==
    { [tag |-> t, code |-> 0, stdout |-> [kind |-> "garbage", findings |-> <<>>]] :
        t \in {"spawn_error", "write_error", "wait_error", "signal"} }
        \cup { [tag |-> "exit", code |-> c, stdout |-> out] : c \in ExitCodes, out \in Stdouts }

\* The child fails to start, finds nothing, or reports one finding.
PlainEnvs ==
    { e \in Envs :
        \/ e.tag = "spawn_error"
        \/ /\ e.tag = "exit"
           /\ e.stdout.kind = "array"
           /\ \/ e.code = 0 /\ e.stdout.findings = <<>>
              \/ e.code = 1 /\ e.stdout.findings = <<Finding(2086, <<"other", "is", "referenced">>)>> }

\* A Result of run_shellcheck; e.to_string() of an anyhow error is its
\* outermost context.
Ok(diagnostics) == [tag |-> "ok", diagnostics |-> diagnostics, error |-> <<>>]

Err(error) == [tag |-> "err", diagnostics |-> <<>>, error |-> error]

\* serde_json::from_slice::<Vec<ShellCheckDiagnostic>>(&output.stdout)
\*     .context("deserializing STDOUT from shellcheck process")
FromSlice(stdout) ==
    IF stdout.kind = "array"
    THEN Ok(stdout.findings)
    ELSE Err(<<"deserializing STDOUT from 'shellcheck' process">>)

\* Only exit code 0 taken as success.
ExitOkZeroOnly(code) == code = 0

\* Some(0) | Some(1) => ..
ExitOk(code) == code \in {0, 1}

\* run_shellcheck(command) when the child process behaves as env says.
RunShellcheck(command, env) ==
    CASE env.tag = "spawn_error" -> Err(<<"spawning the 'shellcheck' process">>)
      [] env.tag = "write_error" -> Err(<<"Broken pipe (os error 32)">>)
      [] env.tag = "wait_error" -> Err(<<"waiting for the 'shellcheck' process to complete">>)
      [] env.tag = "signal" -> Err(<<"the 'shellcheck' process appears to have been interrupted">>)
      [] env.tag = "exit" ->
            IF ExitOk(env.code)
            THEN FromSlice(env.stdout)
            ELSE Err(<<"unexpected 'shellcheck' exit code: ">> \o Decimal(env.code))

\* command_keyword.text_range().to_span() of the section
KeywordSpan(sec) == [at |-> "command_keyword", section |-> sec.id]

\* Span::new(start + diagnostic.column, diagnostic.end_column - diagnostic.column)
InnerSpan(sec) == [at |-> "command_text", section |-> sec.id]

Diagnostic(severity, message, label, span, fix) ==
    [severity |-> severity, message |-> message, label |-> label, span |-> span, fix |-> fix]

\* The diagnostic of the closure handed to get_or_init.
MissingDiagnostic(sec) ==
    Diagnostic("error", "running 'shellcheck' on command section",
               <<"could not find 'shellcheck' executable.">>, KeywordSpan(sec),
               "install shellcheck or disable this lint.")

\* The diagnostic of the Err(e) arm.
ErrorDiagnostic(sec, e) ==
    Diagnostic("error", "running 'shellcheck' on command section", e.error,
               KeywordSpan(sec), "address reported error.")

\* shellcheck_lint(comment, span)
ShellcheckLint(comment, span) ==
    Diagnostic("note", "'shellcheck' reported the following diagnostic",
               <<"SC">> \o Decimal(comment.code) \o <<"[", comment.level, "]: ">>
                   \o comment.message,
               span, "address the diagnostics as recommended in the message")

\* diagnostic.message.split_whitespace().next().unwrap_or("")
TargetVariable(diagnostic) ==
    IF diagnostic.message = <<>> THEN "" ELSE Head(diagnostic.message)

\* No finding is skipped.
SkippedNever(diagnostic, decls) == FALSE

\* The test in front of continue.
Skipped(diagnostic, decls) ==
    /\ diagnostic.code = SHELLCHECK_REFERENCED_UNASSIGNED
    /\ TargetVariable(diagnostic) \in decls

\* The findings the loop of the Ok arm does not skip, in order.
Kept(diagnostics, decls) == SelectSeq(diagnostics, LAMBDA d : ~Skipped(d, decls))

\* The Err arm adding nothing.
OnErrSilent(sec, e) == <<>>

\* Err(e) => one exceptable_add
OnErr(sec, e) == <<ErrorDiagnostic(sec, e)>>

\* The exceptable_add calls of match run_shellcheck(..), in order.
OnResult(sec, decls, result) ==
    IF result.tag = "ok"
    THEN LET kept == Kept(result.diagnostics, decls)
         IN  [k \in 1..Len(kept) |-> ShellcheckLint(kept[k], InnerSpan(sec))]
    ELSE OnErr(sec, result)

\* command_section(state, VisitReason::Enter, section): the visitor is handed
\* the next section of the run.  A call with VisitReason::Exit returns at
\* once and changes nothing.
Enter(v, sec) ==
    /\ vpc[v] = "idle"
    /\ visits < MaxSections
    /\ visits' = visits + 1
    /\ cur' = [cur EXCEPT ![v] = [NoVisit EXCEPT !.sec = sec, !.base = Len(submitted[v])]]
    /\ vpc' = [vpc EXCEPT ![v] = "get_or_init"]
    /\ UNCHANGED <<cell, probes, spawns, submitted, notShell>>

\* A get_or_init that does not wait for a closure that is running.
MayInitRacy(c) == c \in {"uninit", "running"}

\* OnceLock::get_or_init runs the closure of the first caller only; a caller
\* that finds the closure of another running waits for its end.
MayInit(c) == c = "uninit"

\* The handler goes on whatever the cell holds.
ProceedsAlways(c) == TRUE

\* if !SHELLCHECK_EXISTS.get_or_init(..) { return; }
Proceeds(c) == c = "yes"

\* get_or_init finds the cell empty and starts the closure.
BeginInit(v) ==
    /\ vpc[v] = "get_or_init"
    /\ MayInit(cell)
    /\ cell' = "running"
    /\ vpc' = [vpc EXCEPT ![v] = "closure"]
    /\ UNCHANGED <<probes, spawns, cur, visits, submitted, notShell>>

\* The closure: program_exists(SHELLCHECK_BIN) answers found; the cell is
\* set to what the closure returns, and the handler tests it.
Closure(v, found) ==
    /\ vpc[v] = "closure"
    /\ probes' = Append(probes, cur[v].sec.id)
    /\ submitted' = IF found THEN submitted
                    ELSE [submitted EXCEPT ![v] = Append(@, MissingDiagnostic(cur[v].sec))]
    /\ \E c \in {IF found THEN "yes" ELSE "no"} :
           /\ cell' = c
           /\ cur' = [cur EXCEPT ![v].seen = c]
           /\ vpc' = [vpc EXCEPT ![v] = IF Proceeds(c) THEN "sanitize" ELSE "idle"]
    /\ UNCHANGED <<spawns, visits, notShell>>

\* get_or_init finds the cell set and returns what it holds.
ReadCell(v) ==
    /\ vpc[v] = "get_or_init"
    /\ cell \in {"yes", "no"}
    /\ cur' = [cur EXCEPT ![v].seen = cell]
    /\ vpc' = [vpc EXCEPT ![v] = IF Proceeds(cell) THEN "sanitize" ELSE "idle"]
    /\ UNCHANGED <<cell, probes, spawns, visits, submitted, notShell>>

\* gather_task_declarations and sanitize_command; on None the handler returns.
Sanitize(v, drawn) ==
    /\ vpc[v] = "sanitize"
    /\ \E r \in {SanitizeCommand(cur[v].sec, drawn)} :
           /\ cur' = [cur EXCEPT
                        ![v].sanitized = IF r.some THEN "some" ELSE "none",
                        ![v].cmd_decls = r.decls,
                        ![v].decls = IF r.some
                                     THEN GatherTaskDeclarations(cur[v].sec) \cup r.decls
                                     ELSE {},
                        ![v].command = r.command]
           /\ vpc' = [vpc EXCEPT ![v] = IF r.some THEN "run" ELSE "idle"]
    /\ UNCHANGED <<cell, probes, spawns, visits, submitted, notShell>>

\* match run_shellcheck(&sanitized_command) { .. }: the child process is
\* spawned and every finding or the error is handed to exceptable_add.
Run(v, env) ==
    /\ vpc[v] = "run"
    /\ spawns' = spawns + 1
    /\ \E result \in {RunShellcheck(cur[v].command, env)} :
           /\ cur' = [cur EXCEPT ![v].spawned = TRUE, ![v].env = env, ![v].result = result]
           /\ submitted' = [submitted EXCEPT
                              ![v] = @ \o OnResult(cur[v].sec, cur[v].decls, result)]
    /\ vpc' = [vpc EXCEPT ![v] = "idle"]
    /\ UNCHANGED <<cell, probes, visits, notShell>>

InitShell == FixerIdle /\ ShellIdle /\ ChunkIdle /\ RestIdle

\* Two threads lint documents whose command sections have no placeholders.
NextShell ==
    \/ \E v \in Visitors :
           vpc[v] = "idle" /\ visits < MaxSections
               /\ \E sec \in PlainSections(visits + 1) : Enter(v, sec)
    \/ \E v \in Visitors : BeginInit(v)
    \/ \E v \in Visitors : \E found \in BOOLEAN : Closure(v, found)
    \/ \E v \in Visitors : ReadCell(v)
    \/ \E v \in Visitors : \E drawn \in DummyVars : Sanitize(v, drawn)
    \/ \E v \in Visitors : vpc[v] = "run" /\ \E env \in PlainEnvs : Run(v, env)

SpecShell == InitShell /\ [][NextShell]_vars

\* One thread visits the first command section of the run, of any shape,
\* and the child process may end in any way.
NextVisit ==
    \/ visits = 0 /\ \E sec \in Sections(1) : Enter("v1", sec)
    \/ BeginInit("v1")
    \/ \E found \in BOOLEAN : Closure("v1", found)
    \/ \E drawn \in DummyVars : Sanitize("v1", drawn)
    \/ vpc["v1"] = "run" /\ \E env \in Envs : Run("v1", env)

SpecVisit == InitShell /\ [][NextVisit]_vars

(***************************************************************************)
(* Claims about the availability probe, checked under SpecShell.           *)
(***************************************************************************)
\* The diagnostics handed to exceptable_add in the whole run, by any visitor.
AllSubmitted == UNION { { submitted[v][k] : k \in DOMAIN submitted[v] } : v \in Visitors }

TotalSubmitted == Len(submitted["v1"]) + Len(submitted["v2"])

\* C12: program_exists is called at most once in a process, however many
\* sections are visited and also when two threads reach get_or_init
\* together; once the cell is set exactly one call has been made, and every
\* visit that has read the cell has read the value it holds.
C12_ProbeRunsOnce ==
    /\ Len(probes) <= 1
    /\ cell \in {"yes", "no"} => Len(probes) = 1
    /\ \A v \in Visitors : cur[v].seen # "none" => cur[v].seen = cell

\* A section entered before the one whose visit ran the probe and a section
\* entered after it have both read the cell: two first uses overlapped, and
\* a later use followed.
C12_Witness ==
    /\ Len(probes) = 1
    /\ \E v \in Visitors, w \in Visitors :
           /\ cur[v].sec.id < probes[1]
           /\ cur[v].seen = cell
           /\ cur[w].sec.id > probes[1]
           /\ cur[w].seen = cell

Added(v) == SubSeq(submitted[v], cur[v].base + 1, Len(submitted[v]))

\* The child process was started for the visit of v and the run failed: it
\* did not spawn, the write or the wait failed, a signal ended it, the exit
\* code is neither 0 nor 1, or stdout is not a JSON array of findings.
InvocationFailed(v) ==
    /\ cur[v].spawned
    /\ \/ cur[v].env.tag # "exit"
       \/ cur[v].env.code \notin {0, 1}
       \/ cur[v].env.stdout.kind # "array"

\* C14: when the invocation of the tool fails in any way, the visit hands
\* over exactly one diagnostic, an error on the command keyword of the
\* section, no finding, and the handler has returned.
C14_FailureGivesOneError ==
    \A v \in Visitors :
        InvocationFailed(v) =>
            /\ vpc[v] = "idle"
            /\ Len(Added(v)) = 1
            /\ Added(v)[1].severity = "error"
            /\ Added(v)[1].span = [at |-> "command_keyword", section |-> cur[v].sec.id]

\* The child printed findings and left with code 2.
C14_Witness ==
    /\ InvocationFailed("v1")
    /\ cur["v1"].env.tag = "exit"
    /\ cur["v1"].env.code = 2
    /\ cur["v1"].env.stdout.kind = "array"
    /\ Len(cur["v1"].env.stdout.findings) = 2
    /\ Len(submitted["v1"]) = 1

\* C15: for exit code 0 and for exit code 1 the result of run_shellcheck is
\* the parse of stdout; for any other code it is an error whose message
\* ends with the code, and that message is the label of the one diagnostic
\* the visit hands over.
C15_ExitCodeDecides ==
    \A v \in Visitors :
        cur[v].env.tag = "exit" =>
            IF cur[v].env.code \in {0, 1}
            THEN /\ cur[v].result.tag = "ok" <=> cur[v].env.stdout.kind = "array"
                 /\ cur[v].result.tag = "ok" =>
                        cur[v].result.diagnostics = cur[v].env.stdout.findings
                 /\ cur[v].result.tag = "err" =>
                        cur[v].result.error = <<"deserializing STDOUT from 'shellcheck' process">>
            ELSE /\ cur[v].result.tag = "err"
                 /\ cur[v].result.error =
                        <<"unexpected 'shellcheck' exit code: ">>
                            \o (IF cur[v].env.code = 2 THEN <<"2">> ELSE <<"1", "2", "7">>)
                 /\ Len(Added(v)) = 1
                 /\ Added(v)[1].label = cur[v].result.error

\* The child left with code 1 and its two findings were parsed.
C15_Witness ==
    /\ cur["v1"].env.tag = "exit"
    /\ cur["v1"].env.code = 1
    /\ cur["v1"].result.tag = "ok"
    /\ Len(cur["v1"].result.diagnostics) = 2
    /\ Len(submitted["v1"]) = 2

\* The finding f of the visit of v was handed over as a diagnostic.
Reported(v, f) ==
    \E k \in DOMAIN Added(v) :
        /\ Added(v)[k].severity = "note"
        /\ Added(v)[k].label =
               <<"SC">> \o Decimal(f.code) \o <<"[", f.level, "]: ">> \o f.message

\* The findings run_shellcheck returned to the visit of v.
Returned(v) ==
    IF cur[v].result.tag = "ok"
    THEN { cur[v].result.diagnostics[k] : k \in DOMAIN cur[v].result.diagnostics }
    ELSE {}

C17_DeclaredIdentifierKept ==
    \A v \in Visitors : \A f \in Returned(v) :
        (f.code = 2154 /\ TargetVariable(f) \in cur[v].sec.inputs \cup cur[v].sec.privates)
            => Reported(v, f)

\* C18: when the section has mixed indentation and the handler got past the
\* probe, sanitize_command has returned None, the handler has returned, and
\* the visit has handed over no diagnostic and spawned no process.
C18_MixedIndentationIsSilent ==
    \A v \in Visitors :
        (cur[v].sec.mixed /\ cur[v].seen = "yes" /\ vpc[v] # "sanitize") =>
            /\ cur[v].sanitized = "none"
            /\ vpc[v] = "idle"
            /\ Added(v) = <<>>
            /\ ~cur[v].spawned
            /\ spawns = 0

\* sanitize_command returned None for a section with a placeholder.
C18_Witness ==
    /\ cur["v1"].sanitized = "none"
    /\ cur["v1"].sec.mixed
    /\ Len(cur["v1"].sec.parts) = 2
    /\ cur["v1"].sec.inputs = {"name"}
    /\ vpc["v1"] = "idle"

(***************************************************************************)
(* chunk of the WDL standard library                                       *)
(* (src/wdl-engine/src/stdlib/chunk.rs).  The call is bound to the         *)
(* signature (Array[X], Int) -> Array[Array[X]], so the two arguments are  *)
(* an array and an integer.                                                *)
(***************************************************************************)
\* longest Array argument of chunk
MaxArray == 3
\* the Int argument of chunk lies in -MaxSize..MaxSize
MaxSize == 4

Elements == {"x", "y"}

Arrays == UNION { [1..n -> Elements] : n \in 0..MaxArray }

Sizes == (0 - MaxSize)..MaxSize

\* function_call_failed(name, msg, span).message(), as the test of chunk
\* reads it.
FunctionCallFailed(name, msg) == <<"call to function '", name, "' failed: ", msg>>

\* size as usize keeps a size >= 0, the only sizes the code casts.  A
\* negative size would wrap to a value above the length of every array.
AsUsize(n) == IF n >= 0 THEN n ELSE I32Max

\* slice::chunks_exact: the chunks of n elements, without the remainder.
RECURSIVE ChunksExact(_, _)
ChunksExact(s, n) ==
    IF Len(s) < n THEN <<>>
    ELSE <<SubSeq(s, 1, n)>> \o ChunksExact(SubSeq(s, n + 1, Len(s)), n)

RECURSIVE Chunks(_, _)
\* slice::chunks(n) for n > 0: the next chunk is the first n elements of
\* what is left, or all of it when fewer are left.
Chunks(s, n) ==
    IF s = <<>> THEN <<>>
    ELSE IF Len(s) <= n THEN <<s>>
    ELSE <<SubSeq(s, 1, n)>> \o Chunks(SubSeq(s, n + 1, Len(s)), n)

\* No size is rejected.
RejectsNone(n) == FALSE

\* if size < 0 { return Err(..) }
Rejects(n) == n < 0

\* chunk(context): an error for a negative size; slice::chunks panics on a
\* chunk size of zero; otherwise the array of the chunks.
Chunk(elements, n) ==
    IF Rejects(n)
    THEN [tag |-> "err", value |-> <<>>,
          message |-> FunctionCallFailed("chunk", "chunk size cannot be negative")]
    ELSE IF AsUsize(n) = 0
         THEN [tag |-> "panic", value |-> <<>>, message |-> <<>>]
         ELSE [tag |-> "ok", value |-> Chunks(elements, AsUsize(n)), message |-> <<>>]

InitChunk ==
    /\ FixerIdle
    /\ ShellIdle
    /\ RestIdle
    /\ array \in Arrays
    /\ size \in Sizes
    /\ outcome = [tag |-> "pending"]

\* The engine evaluates chunk(array, size).
ChunkCall ==
    /\ outcome.tag = "pending"
    /\ outcome' = Chunk(array, size)
    /\ UNCHANGED <<array, size, notChunk>>

NextChunk == ChunkCall

SpecChunk == InitChunk /\ [][NextChunk]_vars

RECURSIVE Flatten(_)
Flatten(ss) == IF ss = <<>> THEN <<>> ELSE Head(ss) \o Flatten(Tail(ss))

\* C19: for a size n > 0 chunk returns an array of sub-arrays that are
\* consecutive slices of the input and together make up the input in order;
\* all but the last have n elements, the last has length mod n elements
\* when the length is not a multiple of n, and an empty input gives an
\* empty array.
C19_ChunksPartitionTheArray ==
    (size > 0 /\ outcome.tag # "pending") =>
        /\ outcome.tag = "ok"
        /\ Flatten(outcome.value) = array
        /\ \A k \in DOMAIN outcome.value :
               /\ outcome.value[k] # <<>>
               /\ k < Len(outcome.value) => Len(outcome.value[k]) = size
               /\ outcome.value[k] =
                      SubSeq(array, (k - 1) * size + 1,
                             IF k * size < Len(array) THEN k * size ELSE Len(array))
        /\ (Len(array) % size # 0) =>
               Len(outcome.value[Len(outcome.value)]) = Len(array) % size
        /\ (array # <<>> /\ Len(array) % size = 0) =>
               Len(outcome.value[Len(outcome.value)]) = size
        /\ array = <<>> => outcome.value = <<>>

\* Three elements in chunks of two: a full chunk and a shorter last one.
C19_Witness ==
    /\ size = 2
    /\ Len(array) = 3
    /\ outcome.tag = "ok"
    /\ Len(outcome.value) = 2
    /\ Len(outcome.value[2]) = 1

\* C20: for a size < 0 chunk returns the error "call to function 'chunk'
\* failed: chunk size cannot be negative" and no array, whatever the array.
C20_NegativeSizeIsAnError ==
    (size < 0 /\ outcome.tag # "pending") =>
        /\ outcome.tag = "err"
        /\ outcome.message =
               <<"call to function '", "chunk", "' failed: ", "chunk size cannot be negative">>
        /\ outcome.value = <<>>

\* A non-empty array and a negative size.
C20_Witness ==
    /\ size < 0
    /\ Len(array) = MaxArray
    /\ outcome.tag = "err"


(***************************************************************************)
(* wdl-engine/src/stdlib/select_first.rs: select_first(array, default).    *)
(* The array holds optional values; the second argument may be absent.     *)
(***************************************************************************)
MaxOpt == 3

\* Value::None
None == "None"

\* The values an Array[String?] holds.
OptionalValues == {None, "a", "b"}

OptionalArrays == UNION { [1..n -> OptionalValues] : n \in 0..MaxOpt }

\* context.arguments of a call of select_first: the array, then the
\* default when the call gives one.
SelectFirstArguments ==
    { <<a>> : a \in OptionalArrays } \cup
    { <<a, d>> : a \in OptionalArrays, d \in {"b", "d"} }

\* No array counts as empty.
IsEmptyNever(elements) == FALSE

\* array.is_empty()
IsEmpty(elements) == elements = <<>>

\* The right-most element that is not None.
FindLast(elements) ==
    LET some == { i \in 1..Len(elements) : elements[i] # None }
    IN  IF some = {} THEN 0 ELSE CHOOSE i \in some : \A j \in some : j <= i

\* array.elements().iter().find(|v| !v.is_none()): the index of the first
\* element that is not None, 0 when there is none.
Find(elements) ==
    LET some == { i \in 1..Len(elements) : elements[i] # None }
    IN  IF some = {} THEN 0 ELSE CHOOSE i \in some : \A j \in some : i <= j

\* select_first(context)
SelectFirst(args) ==
    LET elements == args[1]
    IN  IF IsEmpty(elements)
        THEN [tag |-> "err", value |-> None,
              message |-> FunctionCallFailed("select_first", "array is empty")]
        ELSE IF Find(elements) # 0
             THEN [tag |-> "ok", value |-> elements[Find(elements)], message |-> <<>>]
             ELSE IF Len(args) < 2
                  THEN [tag |-> "err", value |-> None,
                        message |-> FunctionCallFailed("select_first",
                                        "array contains only 'None' values")]
                  ELSE [tag |-> "ok", value |-> args[2], message |-> <<>>]

InitSelectFirst ==
    /\ FixerIdle
    /\ ShellIdle
    /\ ChunkIdle
    /\ StreamIdle
    /\ MapIdle
    /\ ProcIdle
    /\ callee = "select_first"
    /\ arguments \in SelectFirstArguments
    /\ returned = [tag |-> "pending"]

\* The engine evaluates select_first(array) or select_first(array, default).
SelectFirstCall ==
    /\ callee = "select_first"
    /\ returned.tag = "pending"
    /\ returned' = SelectFirst(arguments)
    /\ UNCHANGED <<callee, arguments, notStd>>

NextSelectFirst == SelectFirstCall

SpecSelectFirst == InitSelectFirst /\ [][NextSelectFirst]_vars

\* The call has returned.
SelectFirstDone == callee = "select_first" /\ returned.tag # "pending"

\* The array is empty or holds only None.
NothingToSelect == \A i \in 1..Len(arguments[1]) : arguments[1][i] = None

\* C21: with a default, select_first of an array that is empty or holds
\* only None returns the default.
C21_DefaultWhenNothingToSelect ==
    (SelectFirstDone /\ Len(arguments) = 2 /\ NothingToSelect) =>
        (returned.tag = "ok" /\ returned.value = arguments[2])

\* C22: when some element is not None, select_first returns the left-most
\* such element, with or without a default.
C22_LeftMostNonNone ==
    (SelectFirstDone /\ ~NothingToSelect) =>
        /\ returned.tag = "ok"
        /\ \E i \in 1..Len(arguments[1]) :
               /\ arguments[1][i] # None
               /\ \A j \in 1..(i - 1) : arguments[1][j] = None
               /\ returned.value = arguments[1][i]

\* [None, "a", "b"] with the default "b": "a" is returned.
C22_Witness ==
    /\ SelectFirstDone
    /\ arguments = <<(<<None, "a", "b">>), "b">>
    /\ returned.value = "a"

\* C23: without a default, select_first of an empty array is the error
\* 'array is empty', of an array of only None the error 'array contains
\* only None values', and in neither case a value.
C23_ErrorWithoutDefault ==
    (SelectFirstDone /\ Len(arguments) = 1 /\ NothingToSelect) =>
        /\ returned.tag = "err"
        /\ returned.value = None
        /\ arguments[1] = <<>> =>
               returned.message = FunctionCallFailed("select_first", "array is empty")
        /\ arguments[1] # <<>> =>
               returned.message =
                   FunctionCallFailed("select_first", "array contains only 'None' values")

\* Both cases have been called: here the array of two None.
C23_Witness ==
    /\ SelectFirstDone
    /\ arguments = <<(<<None, None>>)>>
    /\ returned.tag = "err"


(***************************************************************************)
(* wdl-engine/src/stdlib/read_lines.rs: read_lines(file).  The argument    *)
(* is modelled by what fs::File::open finds at the path: no file, or a     *)
(* file with some bytes.  A line and the content are sequences of bytes.   *)
(***************************************************************************)
MaxFile == 3

\* The carriage return and the line feed.
CR == "CR"

LF == "LF"

\* A letter, the two end-of-line characters, and a byte that is not UTF-8.
Bytes == {"a", CR, LF, "xFF"}

Contents == UNION { [1..n -> Bytes] : n \in 0..MaxFile }

\* What the path of the call leads to.
Files ==
    { [exists |-> TRUE, content |-> c] : c \in Contents } \cup
    { [exists |-> FALSE, content |-> <<>>] }

\* BufRead::read_line: the bytes up to and including the first line feed,
\* all the bytes when there is no line feed.
ReadLine(buf) ==
    LET feeds == { i \in 1..Len(buf) : buf[i] = LF }
    IN  IF feeds = {} THEN buf
        ELSE SubSeq(buf, 1, CHOOSE i \in feeds : \A j \in feeds : i <= j)

\* Lines::next after read_line: a final line feed is popped, and then a
\* carriage return in front of it.
StripNewline(line) ==
    IF line # <<>> /\ line[Len(line)] = LF
    THEN LET cut == SubSeq(line, 1, Len(line) - 1)
         IN  IF cut # <<>> /\ cut[Len(cut)] = CR
             THEN SubSeq(cut, 1, Len(cut) - 1)
             ELSE cut
    ELSE line

RECURSIVE Lines(_)
\* BufReader::new(file).lines(), collected.
Lines(buf) ==
    IF buf = <<>> THEN <<>>
    ELSE <<StripNewline(ReadLine(buf))>> \o
         Lines(SubSeq(buf, Len(ReadLine(buf)) + 1, Len(buf)))

\* read_lines(context): an error when the file cannot be opened or a line
\* is not UTF-8, otherwise the array of the lines.
ReadLines(file) ==
    IF ~file.exists
    THEN [tag |-> "err", value |-> <<>>, message |-> "failed to open file"]
    ELSE IF \E i \in 1..Len(file.content) : file.content[i] = "xFF"
         THEN [tag |-> "err", value |-> <<>>, message |-> "failed to read file"]
         ELSE [tag |-> "ok", value |-> Lines(file.content), message |-> ""]

InitReadLines ==
    /\ FixerIdle
    /\ ShellIdle
    /\ ChunkIdle
    /\ StreamIdle
    /\ MapIdle
    /\ ProcIdle
    /\ callee = "read_lines"
    /\ arguments \in Files
    /\ returned = [tag |-> "pending"]

\* The engine evaluates read_lines(file).
ReadLinesCall ==
    /\ callee = "read_lines"
    /\ returned.tag = "pending"
    /\ returned' = ReadLines(arguments)
    /\ UNCHANGED <<callee, arguments, notStd>>

NextReadLines == ReadLinesCall

SpecReadLines == InitReadLines /\ [][NextReadLines]_vars

\* C24: no element of the array read_lines returns ends with a carriage
\* return or a line feed, and an empty file gives the empty array.
C24_NoTrailingEndOfLine ==
    (callee = "read_lines" /\ returned.tag = "ok") =>
        /\ \A k \in 1..Len(returned.value) :
               LET line == returned.value[k]
               IN  line = <<>> \/ line[Len(line)] \notin {CR, LF}
        /\ arguments.content = <<>> => returned.value = <<>>


(***************************************************************************)
(* wdl-engine/src/stdlib/unzip.rs: unzip(array of pairs).                  *)
(***************************************************************************)
MaxPairs == 3

\* Pair values: a left member and a right member.
Pairs == { [left |-> l, right |-> r] : l \in {"1", "2"}, r \in {"a", "b"} }

PairArrays == UNION { [1..n -> Pairs] : n \in 0..MaxPairs }

\* The element is put in front of the others.
VecPushFront(vec, x) == <<x>> \o vec

\* Vec::push
VecPush(vec, x) == Append(vec, x)

RECURSIVE UnzipLoop(_, _, _)
\* for v in array.elements() { left.push(..); right.push(..); }
UnzipLoop(elements, left, right) ==
    IF elements = <<>> THEN [left |-> left, right |-> right]
    ELSE LET p == Head(elements)
         IN  UnzipLoop(Tail(elements), VecPush(left, p.left), VecPush(right, p.right))

\* unzip(context): the pair of the array of the left members and the
\* array of the right members.
Unzip(elements) ==
    [tag |-> "ok", value |-> UnzipLoop(elements, <<>>, <<>>), message |-> ""]

InitUnzip ==
    /\ FixerIdle
    /\ ShellIdle
    /\ ChunkIdle
    /\ StreamIdle
    /\ MapIdle
    /\ ProcIdle
    /\ callee = "unzip"
    /\ arguments \in { <<a>> : a \in PairArrays }
    /\ returned = [tag |-> "pending"]

\* The engine evaluates unzip(array).
UnzipCall ==
    /\ callee = "unzip"
    /\ returned.tag = "pending"
    /\ returned' = Unzip(arguments[1])
    /\ UNCHANGED <<callee, arguments, notStd>>

NextUnzip == UnzipCall

SpecUnzip == InitUnzip /\ [][NextUnzip]_vars

\* C25: unzip returns two arrays as long as its argument, whose k-th
\* elements are the left and the right member of the k-th pair; for the
\* empty array it returns a pair of empty arrays.
C25_UnzipKeepsOrderAndLength ==
    (callee = "unzip" /\ returned.tag # "pending") =>
        /\ returned.tag = "ok"
        /\ Len(returned.value.left) = Len(arguments[1])
        /\ Len(returned.value.right) = Len(arguments[1])
        /\ \A k \in 1..Len(arguments[1]) :
               /\ returned.value.left[k] = arguments[1][k].left
               /\ returned.value.right[k] = arguments[1][k].right
        /\ arguments[1] = <<>> => returned.value = [left |-> <<>>, right |-> <<>>]

\* Three pairs whose members differ from one pair to the next.
C25_Witness ==
    /\ callee = "unzip"
    /\ returned.tag = "ok"
    /\ Len(arguments[1]) = 3
    /\ returned.value.left = <<"1", "2", "1">>
    /\ returned.value.right = <<"a", "a", "b">>


(***************************************************************************)
(* wdl-format/src/token/pre.rs: the methods of TokenStream<PreToken>.  A   *)
(* token is a record of its variant and the argument of the variant: the   *)
(* SyntaxKind of a Literal (its text is read by none of the methods), the  *)
(* policy of a LineSpacingPolicy, the Trivia of a Trivia.                  *)
(***************************************************************************)
MaxStream == 4

PreToken(variant, argument) == [tok |-> variant, arg |-> argument]

BlankLine == PreToken("BlankLine", "")

LineEnd == PreToken("LineEnd", "")

WordEnd == PreToken("WordEnd", "")

IndentStart == PreToken("IndentStart", "")

IndentEnd == PreToken("IndentEnd", "")

Literal(kind) == PreToken("Literal", kind)

TriviaBlankLine == PreToken("Trivia", "BlankLine")

\* The SyntaxKinds of the tokens an element writes.
SyntaxKinds == {"Ident", "TaskKeyword"}

\* Option::None
OptionNone == "None"

\* A wdl_ast::Token as push_ast_token reads it: its kind, the kinds of its
\* preceding trivia in order, and whether an inline comment follows it.
AstTokens ==
    { [kind |-> k, preceding_trivia |-> p, inline_comment |-> c] :
          k \in SyntaxKinds,
          p \in {<<>>, <<"Whitespace">>, <<"Comment">>, <<"Whitespace", "Comment">>},
          c \in BOOLEAN }

\* TokenStream::trim_while(predicate), with the predicate given as the set
\* of the tokens it holds of: the last token is popped for as long as it is
\* in the set, so what stays is the shortest prefix followed only by such
\* tokens.  TokenStream::trim_end(token) is the same for the set {token}.
TrimWhile(s, matched) ==
    LET stays == { k \in 0..Len(s) : \A i \in (k + 1)..Len(s) : s[i] \in matched }
    IN  SubSeq(s, 1, CHOOSE k \in stays : \A j \in stays : k <= j)

\* matches!(t, PreToken::BlankLine | PreToken::Trivia(Trivia::BlankLine))
IsBlank(t) == t = BlankLine \/ t = TriviaBlankLine

\* Only a WordEnd is trimmed.
EndsWordOnly(t) == t = WordEnd

\* matches!(t, PreToken::WordEnd | PreToken::LineEnd)
EndsWordOrLine(t) == t = WordEnd \/ t = LineEnd

BlankLineOf(s) ==
    Append(TrimWhile(s, { t \in {s[i] : i \in 1..Len(s)} : IsBlank(t) }), BlankLine)

EndLineOf(s) ==
    Append(TrimWhile(s, { t \in {s[i] : i \in 1..Len(s)} : EndsWordOrLine(t) }), LineEnd)

EndWordOf(s) == Append(TrimWhile(s, {WordEnd}), WordEnd)

RECURSIVE PushPrecedingTrivia(_, _)
\* push_preceding_trivia: a Whitespace becomes a Trivia::BlankLine unless
\* the stream ends with a blank line, a Comment a preceding comment.
PushPrecedingTrivia(s, trivia) ==
    IF trivia = <<>> THEN s
    ELSE LET next ==
                 IF Head(trivia) = "Whitespace"
                 THEN IF s # <<>> /\ IsBlank(s[Len(s)])
                      THEN s
                      ELSE Append(s, TriviaBlankLine)
                 ELSE Append(s, PreToken("Trivia", "Comment::Preceding"))
         IN  PushPrecedingTrivia(next, Tail(trivia))

\* push_inline_trivia
PushInlineTrivia(s, token) ==
    IF token.inline_comment
    THEN Append(s, PreToken("Trivia", "Comment::Inline"))
    ELSE s

\* push_ast_token and push_literal_in_place_of_token, which differ in the
\* text of the Literal only.
PushAstTokenOf(s, token) ==
    PushInlineTrivia(
        Append(PushPrecedingTrivia(s, token.preceding_trivia), Literal(token.kind)),
        token)

\* slice::last_chunk::<n>(): the last n elements, None (here the empty
\* sequence) when the slice has fewer than n.
LastChunk(s, n) == IF Len(s) < n THEN <<>> ELSE SubSeq(s, Len(s) - n + 1, Len(s))

\* last_literal_kind(&self)
LastLiteralKind(s) ==
    LET c == LastChunk(s, 3)
    IN  IF c = <<>> THEN OptionNone
        ELSE IF c[3].tok = "Literal" THEN c[3].arg
        ELSE IF c[2].tok = "Literal" THEN c[2].arg
        ELSE IF c[1].tok = "Literal" THEN c[1].arg
        ELSE OptionNone

InitStream ==
    /\ FixerIdle
    /\ ShellIdle
    /\ ChunkIdle
    /\ StdIdle
    /\ MapIdle
    /\ ProcIdle
    /\ StreamIdle

\* A method that changes the stream to s and returns nothing.
Mutate(name, s) ==
    /\ Len(s) <= MaxStream
    /\ stream' = s
    /\ before' = stream
    /\ method' = [name |-> name, ret |-> "()"]
    /\ UNCHANGED notStream

blank_line == Mutate("blank_line", BlankLineOf(stream))

end_line == Mutate("end_line", EndLineOf(stream))

end_word == Mutate("end_word", EndWordOf(stream))

increment_indent == Mutate("increment_indent", Append(EndLineOf(stream), IndentStart))

decrement_indent == Mutate("decrement_indent", Append(EndLineOf(stream), IndentEnd))

blank_lines_allowed ==
    Mutate("blank_lines_allowed", Append(stream, PreToken("LineSpacingPolicy", "Always")))

blank_lines_allowed_between_comments ==
    Mutate("blank_lines_allowed_between_comments",
           Append(stream, PreToken("LineSpacingPolicy", "BeforeComments")))

push_ast_token == \E token \in AstTokens : Mutate("push_ast_token", PushAstTokenOf(stream, token))

push_literal == \E kind \in SyntaxKinds : Mutate("push_literal", Append(stream, Literal(kind)))

last_literal_kind ==
    /\ method.name # "last_literal_kind"
    /\ method' = [name |-> "last_literal_kind", ret |-> LastLiteralKind(stream)]
    /\ before' = stream
    /\ UNCHANGED <<stream, notStream>>

NextStream ==
    \/ blank_line
    \/ end_line
    \/ end_word
    \/ increment_indent
    \/ decrement_indent
    \/ blank_lines_allowed
    \/ blank_lines_allowed_between_comments
    \/ push_ast_token
    \/ push_literal
    \/ last_literal_kind

SpecStream == InitStream /\ [][NextStream]_vars

\* The positions of the Literal tokens of the stream.
LiteralsAt == { i \in 1..Len(stream) : stream[i].tok = "Literal" }

\* C26: last_literal_kind returns the kind of the last Literal token of
\* the stream when the stream holds one, whatever follows it, and None
\* only when the stream holds no Literal token.
C26_LastLiteralKindOfWholeStream ==
    method.name = "last_literal_kind" =>
        IF LiteralsAt = {} THEN method.ret = OptionNone
        ELSE method.ret = stream[CHOOSE i \in LiteralsAt : \A j \in LiteralsAt : j <= i].arg

\* The tokens end_line trims.
Trimmed(t) == t = WordEnd \/ t = LineEnd

\* C27: after end_line the stream ends with one LineEnd that follows
\* neither a WordEnd nor a LineEnd, what was in front of the trimmed tail
\* is as before, and a stream that already ended with LineEnd is unchanged.
C27_EndLineEndsWithOneLineEnd ==
    method.name = "end_line" =>
        /\ stream # <<>>
        /\ stream[Len(stream)] = LineEnd
        /\ Len(stream) > 1 => ~Trimmed(stream[Len(stream) - 1])
        /\ Len(stream) - 1 <= Len(before)
        /\ SubSeq(stream, 1, Len(stream) - 1) = SubSeq(before, 1, Len(stream) - 1)
        /\ \A i \in Len(stream)..Len(before) : Trimmed(before[i])
        /\ (before # <<>> /\ before[Len(before)] = LineEnd) => stream = before

\* end_line was called after a literal and an end_word, and once more.
C27_Witness ==
    /\ method.name = "end_line"
    /\ before = <<Literal("Ident"), LineEnd>>
    /\ stream = before


(***************************************************************************)
(* wdl-lint/src/rules/shellcheck.rs, command_section from the line map to  *)
(* the diagnostics, with the text of the command spelled out: a part is a  *)
(* Text or a Placeholder with the characters it has in the source, and a   *)
(* span is an offset into the source.  The characters are a letter, the    *)
(* space and the line feed.                                                *)
(***************************************************************************)
SP == "SP"

Whitespace == {SP, LF}

CommandText(chars) == [kind |-> "Text", text |-> chars]

\* A placeholder, ~{p} in the source.
CommandPlaceholder == [kind |-> "Placeholder", text |-> <<"~", "{", "p", "}">>]

\* The texts of the commands looked at: indentation, words, lines and line
\* ends in front of and behind a placeholder.
CommandTexts ==
    { <<LF, SP>>, <<LF, SP, "x">>, <<LF, SP, "x", LF, SP>>, <<LF, "x", LF>>,
      <<SP, "x", LF, SP, "x", LF>>, <<"x", LF>>, <<SP>>, <<LF>> }

\* section.parts(): up to three parts, no Text next to a Text.
Commands ==
    LET Parts == { CommandText(t) : t \in CommandTexts } \cup {CommandPlaceholder}
    IN  { c \in UNION { [1..n -> Parts] : n \in 1..3 } :
              \A i \in 1..(Len(c) - 1) : ~(c[i].kind = "Text" /\ c[i + 1].kind = "Text") }

RECURSIVE SpanStart(_, _)
\* text.span().start() of the i-th part: the parts follow one another in
\* the source, the first one behind the opening of the command.
SpanStart(c, i) == IF i = 1 THEN 9 ELSE SpanStart(c, i - 1) + Len(c[i - 1].text)

RECURSIVE LinesWithOffset(_, _)
\* util::lines_with_offset(s), from an offset of s on (0 for all of s): the
\* lines of s without their line feed, each with the offset of its first
\* character; no line after a final line feed.
LinesWithOffset(s, offset) ==
    IF offset >= Len(s) THEN <<>>
    ELSE LET feeds == { i \in (offset + 1)..Len(s) : s[i] = LF }
             end == IF feeds = {} THEN Len(s)
                    ELSE (CHOOSE i \in feeds : \A j \in feeds : i <= j) - 1
         IN  <<[line |-> SubSeq(s, offset + 1, end), start |-> offset]>> \o
             LinesWithOffset(s, end + 1)

\* util::count_leading_whitespace(s)
CountLeadingWhitespace(s) ==
    LET others == { i \in 1..Len(s) : s[i] \notin Whitespace }
    IN  IF others = {} THEN Len(s)
        ELSE (CHOOSE i \in others : \A j \in others : i <= j) - 1

\* count_command_whitespace(section): the leading whitespace of the first
\* Text part, one leading line feed set aside.
CountCommandWhitespace(c) ==
    LET texts == { i \in 1..Len(c) : c[i].kind = "Text" }
    IN  IF texts = {} THEN 0
        ELSE LET first == c[CHOOSE i \in texts : \A j \in texts : i <= j].text
             IN  IF first # <<>> /\ Head(first) = LF
                 THEN CountLeadingWhitespace(Tail(first))
                 ELSE CountLeadingWhitespace(first)

\* line.trim().is_empty()
TrimIsEmpty(line) == \A i \in 1..Len(line) : line[i] \in Whitespace

\* let mut line_map = HashMap::new(); let mut line_num = 1;
\* let mut on_same_line = false;
NewLineMap == [entries |-> <<>>, line_num |-> 1, on_same_line |-> FALSE]

RECURSIVE ForLines(_, _, _)
\* for (line, start, _) in lines_with_offset(text.as_str()) { .. }, where
\* base is text.span().start() + leading_whitespace.
ForLines(lines, base, m) ==
    IF lines = <<>> THEN m
    ELSE LET l == Head(lines)
             next ==
                 IF m.line_num = 1 /\ TrimIsEmpty(l.line) THEN m
                 ELSE IF m.on_same_line THEN [m EXCEPT !.on_same_line = FALSE]
                 ELSE [m EXCEPT !.entries = @ @@ (m.line_num :> (base + l.start - 1)),
                                !.line_num = @ + 1]
         IN  ForLines(Tail(lines), base, next)

RECURSIVE ForParts(_, _, _)
\* for part in section.parts() { match part { .. } }, from the i-th part on
ForParts(c, i, m) ==
    IF i > Len(c) THEN m
    ELSE IF c[i].kind = "Text"
         THEN ForParts(c, i + 1,
                       ForLines(LinesWithOffset(c[i].text, 0),
                                SpanStart(c, i) + CountCommandWhitespace(c), m))
         ELSE ForParts(c, i + 1, [m EXCEPT !.on_same_line = TRUE])

\* The line map of the section.
LineMap(c) == ForParts(c, 1, NewLineMap)

RECURSIVE Source(_)
\* The source text of the parts, one after the other.
Source(c) == IF c = <<>> THEN <<>> ELSE Head(c).text \o Source(Tail(c))

\* The number of whitespace characters s ends with.
CountTrailingWhitespace(s) ==
    LET others == { i \in 1..Len(s) : s[i] \notin Whitespace }
    IN  IF others = {} THEN Len(s)
        ELSE Len(s) - (CHOOSE i \in others : \A j \in others : j <= i)

\* CommandSection::strip_whitespace and sanitize_command keep the lines of
\* the command: the text handed to shellcheck is the source without the
\* whitespace a first Text part starts with and a last Text part ends
\* with, each line without the common indentation and each placeholder
\* replaced on its line.  These are the positions in Source of the first
\* and of the last character that is kept.
FirstKept(c) == IF c[1].kind = "Text" THEN CountLeadingWhitespace(c[1].text) + 1 ELSE 1

LastKept(c) ==
    IF c[Len(c)].kind = "Text"
    THEN Len(Source(c)) - CountTrailingWhitespace(c[Len(c)].text)
    ELSE Len(Source(c))

\* The number of the source line the position p of Source is on.
SourceLine(c, p) == 1 + Cardinality({ i \in 1..(p - 1) : Source(c)[i] = LF })

\* The number of lines of the sanitized command.
SanitizedLineCount(c) ==
    IF FirstKept(c) > LastKept(c) THEN 0
    ELSE SourceLine(c, LastKept(c)) - SourceLine(c, FirstKept(c)) + 1

\* The offset in the source of the line that is line k of the sanitized
\* command.
SourceOffset(c, k) ==
    LET j == SourceLine(c, FirstKept(c)) + k - 1
        starts == { p \in 1..Len(Source(c)) : SourceLine(c, p) = j }
    IN  SpanStart(c, 1) + (CHOOSE p \in starts : \A q \in starts : p <= q) - 1

\* No finding: shellcheck printed an empty array.
NoFinding == [line |-> 0, column |-> 0, end_line |-> 0, end_column |-> 0, skip |-> FALSE]

\* The findings shellcheck may print for the command: a range from a line
\* and a column to the same or a later line and a column, not backwards
\* on one line.  skip tells whether the test in front of continue holds.
FindingsOf(c) ==
    { f \in [line : 1..SanitizedLineCount(c), column : 1..2,
             end_line : 1..SanitizedLineCount(c), end_column : 1..2, skip : BOOLEAN] :
          /\ f.line <= f.end_line
          /\ f.line = f.end_line => f.column <= f.end_column }

\* How the crate is built: with or without overflow checks.
Builds == {"debug", "release"}

\* The body of for diagnostic in diagnostics { .. } for one finding.  A
\* usize subtraction below zero panics with overflow checks and wraps
\* without; len then stands for 2^64 + len.
Process(f, m, build) ==
    IF f = NoFinding
    THEN [tag |-> "none", start |-> 0, len |-> 0, wrapped |-> FALSE]
    ELSE IF f.skip
    THEN [tag |-> "filtered", start |-> 0, len |-> 0, wrapped |-> FALSE]
    ELSE IF f.line \notin DOMAIN m.entries
    THEN [tag |-> "panic", start |-> 0, len |-> 0, wrapped |-> FALSE]
    ELSE IF f.end_column < f.column /\ build = "debug"
    THEN [tag |-> "panic", start |-> 0, len |-> 0, wrapped |-> FALSE]
    ELSE [tag |-> "submitted", start |-> m.entries[f.line] + f.column,
          len |-> f.end_column - f.column, wrapped |-> f.end_column < f.column]

InitLineMap ==
    /\ FixerIdle
    /\ ShellIdle
    /\ ChunkIdle
    /\ StdIdle
    /\ StreamIdle
    /\ ProcIdle
    /\ section \in Commands
    /\ line_map = NewLineMap
    /\ finding \in FindingsOf(section) \cup {NoFinding}
    /\ handled = [tag |-> "pending"]

\* command_section from let mut line_map to the end of the Ok arm.
MapAndProcess ==
    /\ handled.tag = "pending"
    /\ section # <<>>
    /\ line_map' = LineMap(section)
    /\ \E build \in Builds : handled' = Process(finding, LineMap(section), build)
    /\ UNCHANGED <<section, finding, notMap>>

NextLineMap == MapAndProcess

SpecLineMap == InitLineMap /\ [][NextLineMap]_vars

\* C28: the line map has an entry for every line 1..n of the sanitized
\* command, and the entry of a line is the offset of that line in the
\* source (moved by the leading whitespace, as every entry is).
C28_EveryLineMapped ==
    (section # <<>> /\ handled.tag # "pending") =>
        \A k \in 1..SanitizedLineCount(section) :
            /\ k \in DOMAIN line_map.entries
            /\ line_map.entries[k] =
                   SourceOffset(section, k) + CountCommandWhitespace(section) - 1

\* C29: a finding never makes the handler panic: its line is found in the
\* line map and end_column - column does not go below zero, so it is
\* filtered out or submitted as one diagnostic.
C29_FindingNeverPanics ==
    (handled.tag # "pending" /\ finding # NoFinding) =>
        /\ handled.tag \in {"filtered", "submitted"}
        /\ ~handled.wrapped


(***************************************************************************)
(* wdl-lint/src/rules/shellcheck.rs, run_shellcheck step by step: what it  *)
(* does to the child process and to the pipe to its stdin.  The child      *)
(* record holds how the process behaves (env), the state of the pipe,      *)
(* whether the process has been waited on, and whether the Child value is  *)
(* still held; std::process::Child has no Drop that waits or kills.        *)
(***************************************************************************)
InitProc ==
    /\ FixerIdle
    /\ ShellIdle
    /\ ChunkIdle
    /\ StdIdle
    /\ StreamIdle
    /\ MapIdle
    /\ rpc = "probe"
    /\ child = [tag |-> "none"]
    /\ events = <<>>
    /\ ret = [tag |-> "pending"]

\* if !SHELLCHECK_EXISTS.get_or_init(..) { return; } of command_section, on
\* the one thread v1: the closure runs when the cell is empty, and adds its
\* diagnostic when program_exists finds nothing; run_shellcheck is called
\* only when the cell holds true.
GetOrInit(found) ==
    /\ rpc = "probe"
    /\ \E c \in {IF MayInit(cell) THEN (IF found THEN "yes" ELSE "no") ELSE cell} :
           /\ cell' = c
           /\ rpc' = IF Proceeds(c) THEN "spawn" ELSE "skipped"
    /\ probes' = IF MayInit(cell) THEN Append(probes, cur["v1"].sec.id) ELSE probes
    /\ submitted' = IF MayInit(cell) /\ ~found
                    THEN [submitted EXCEPT !["v1"] = Append(@, MissingDiagnostic(cur["v1"].sec))]
                    ELSE submitted
    /\ events' = Append(events, "probe")
    /\ UNCHANGED <<child, ret, spawns, vpc, cur, visits, fixerVars, chunkVars, stdVars,
                   streamVars, mapVars>>

\* The handler has returned and is called for the next command section.
NextSection ==
    /\ rpc \in {"returned", "skipped"}
    /\ rpc' = "probe"
    /\ child' = [tag |-> "none"]
    /\ events' = <<>>
    /\ ret' = [tag |-> "pending"]
    /\ UNCHANGED notProc

\* The pipe stays as it is.
KeepStdin(pipe) == pipe

\* proc_stdin goes out of scope: dropping a ChildStdin closes the pipe.
DropStdin(pipe) == "closed"

\* The function returns; its command is echo hi.
Return(env) ==
    /\ rpc' = "returned"
    /\ ret' = RunShellcheck(<<"echo hi">>, env)

\* process::Command::new(SHELLCHECK_BIN) .. .spawn().context(..)?
Spawn(env) ==
    /\ rpc = "spawn"
    /\ IF env.tag = "spawn_error"
       THEN /\ Return(env)
            /\ events' = Append(events, "spawn failed")
            /\ UNCHANGED child
       ELSE /\ child' = [tag |-> "child", env |-> env, stdin |-> "piped",
                         reaped |-> FALSE, held |-> TRUE]
            /\ events' = Append(events, "spawn")
            /\ rpc' = "write"
            /\ UNCHANGED ret
    /\ UNCHANGED notProc

\* sc_proc.stdin.take() and proc_stdin.write_all(command.as_bytes())?.  On
\* an error the ? returns: proc_stdin goes out of scope, which closes the
\* pipe, and sc_proc is dropped without a wait.
WriteAll ==
    /\ rpc = "write"
    /\ IF child.env.tag = "write_error"
       THEN /\ Return(child.env)
            /\ child' = [child EXCEPT !.stdin = DropStdin("taken"), !.held = FALSE]
            /\ events' = events \o <<"write failed", "close stdin", "drop child">>
       ELSE /\ child' = [child EXCEPT !.stdin = "taken"]
            /\ events' = Append(events, "write")
            /\ rpc' = "close"
            /\ UNCHANGED ret
    /\ UNCHANGED notProc

\* The end of the block: proc_stdin goes out of scope.
CloseStdin ==
    /\ rpc = "close"
    /\ child' = [child EXCEPT !.stdin = DropStdin(child.stdin)]
    /\ events' = Append(events, "close stdin")
    /\ rpc' = "wait"
    /\ UNCHANGED <<ret, notProc>>

\* sc_proc.wait_with_output().context(..)?: the Child is moved into the
\* call; stdout is read to its end and the process is waited on, and when
\* either fails the ? returns with the process not waited on.
WaitWithOutput ==
    /\ rpc = "wait"
    /\ IF child.env.tag = "wait_error"
       THEN /\ Return(child.env)
            /\ child' = [child EXCEPT !.held = FALSE]
            /\ events' = events \o <<"wait failed", "drop child">>
       ELSE /\ child' = [child EXCEPT !.reaped = TRUE, !.held = FALSE]
            /\ events' = events \o <<"read stdout", "wait">>
            /\ rpc' = "match"
            /\ UNCHANGED ret
    /\ UNCHANGED notProc

\* match output.status.code() { .. }
MatchCode ==
    /\ rpc = "match"
    /\ Return(child.env)
    /\ events' = Append(events, "match code")
    /\ UNCHANGED <<child, notProc>>

NextProc ==
    \/ \E found \in BOOLEAN : GetOrInit(found)
    \/ NextSection
    \/ \E env \in Envs : Spawn(env)
    \/ WriteAll
    \/ CloseStdin
    \/ WaitWithOutput
    \/ MatchCode

SpecProc == InitProc /\ [][NextProc]_vars

\* C30: when run_shellcheck returns after a successful spawn, the stdin
\* of the child has been closed and the child has been waited on, on the
\* paths of a failed write and of an unexpected exit code as well.
C30_ChildClosedAndReaped ==
    (rpc = "returned" /\ child.tag = "child") =>
        /\ child.stdin = "closed"
        /\ child.reaped


\* The place of the event e in events, 0 when it has not happened.
EventAt(e) ==
    IF \E i \in 1..Len(events) : events[i] = e
    THEN CHOOSE i \in 1..Len(events) : events[i] = e
    ELSE 0

\* The event a has happened when b happens, and before it.
Precedes(a, b) == EventAt(b) # 0 => (EventAt(a) # 0 /\ EventAt(a) < EventAt(b))

\* C31: run_shellcheck spawns, writes the command, closes stdin, reads
\* stdout and waits, and then matches the exit code and parses, in that
\* order: stdin is closed when the wait begins, the output is parsed only
\* when the process has been waited on, and nothing is spawned when the
\* probe has found shellcheck unavailable.
C31_StepsInOrder ==
    /\ Precedes("probe", "spawn")
    /\ Precedes("spawn", "write")
    /\ Precedes("spawn", "write failed")
    /\ EventAt("write failed") = 0 => Precedes("write", "close stdin")
    /\ EventAt("write failed") # 0 =>
           (EventAt("write failed") < EventAt("close stdin") /\ EventAt("read stdout") = 0)
    /\ Precedes("write", "read stdout")
    /\ Precedes("close stdin", "read stdout")
    /\ Precedes("close stdin", "wait failed")
    /\ Precedes("read stdout", "wait")
    /\ Precedes("wait", "match code")
    /\ rpc = "wait" => child.stdin = "closed"
    /\ (EventAt("read stdout") # 0 \/ EventAt("wait failed") # 0) => child.stdin = "closed"
    /\ (ret.tag # "pending" /\ EventAt("match code") # 0) => child.reaped
    /\ (ret.tag = "ok" \/ (ret.tag = "err" /\ ret.error = FromSlice([kind |-> "garbage", findings |-> <<>>]).error)) =>
           (child.tag = "child" /\ child.reaped)
    /\ cell = "no" =>
           /\ child.tag = "none"
           /\ ret.tag = "pending"
           /\ EventAt("spawn") = 0
           /\ EventAt("spawn failed") = 0

\* A whole run: every step was taken and the findings were parsed.
C31_Witness ==
    /\ cell = "yes"
    /\ rpc = "returned"
    /\ events = <<"probe", "spawn", "write", "close stdin", "read stdout", "wait", "match code">>
    /\ ret.tag = "ok"
    /\ Len(ret.diagnostics) = 2


(***************************************************************************)
(* wdl-lint/src/rules/shellcheck.rs, to_bash_var and sanitize_command with *)
(* the characters spelled out: the argument is what strip_whitespace       *)
(* returned, None or the stripped parts, a Text with its characters and a  *)
(* Placeholder with the characters it has in the source.                   *)
(***************************************************************************)
\* Some(cmd_parts) for the stripped parts looked at, and None.
StrippedCommands ==
    LET Parts == { CommandText(t) : t \in {<<"e">>, <<"e", SP>>, <<SP, "e", LF, "e">>} } \cup
                 { [kind |-> "Placeholder", text |-> t] :
                       t \in {<<"~", "{", "p", "}">>, <<"$", "{", "p", "q", "}">>} }
    IN  { [some |-> TRUE, parts |-> c] :
              c \in { c \in UNION { [1..n -> Parts] : n \in 1..3 } :
                          \A i \in 1..(Len(c) - 1) :
                              ~(c[i].kind = "Text" /\ c[i + 1].kind = "Text") } }
            \cup { [some |-> FALSE, parts |-> <<>>] }

\* The letters and digits of rand's Alphanumeric, two of them.
Alphanumeric == {"A", "7"}

\* Alphanumeric.sample_string(rng, n): any string of n letters and digits.
SampleString(n) == [1..n -> Alphanumeric]

\* A name as long as the placeholder.
WholeLength(placeholder_len) == placeholder_len

\* placeholder_len - 3
NameLength(placeholder_len) == placeholder_len - 3

\* to_bash_var(placeholder): what it may return.
ToBashVars(placeholder) == SampleString(NameLength(Len(placeholder.text)))

RECURSIVE Samples(_)
\* The strings the calls of to_bash_var may return for the parts, one for
\* each part in order (the empty string for a Text, which draws none).
Samples(cmd_parts) ==
    IF cmd_parts = <<>> THEN { <<>> }
    ELSE { <<v>> \o rest :
               v \in (IF Head(cmd_parts).kind = "Placeholder"
                      THEN ToBashVars(Head(cmd_parts))
                      ELSE { <<>> }),
               rest \in Samples(Tail(cmd_parts)) }

RECURSIVE ForEachPart(_, _, _)
\* cmd_parts.iter().for_each(|part| match part { .. }) with the strings
\* drawn; acc is sanitized_command and decls so far.
ForEachPart(cmd_parts, drawn, acc) ==
    IF cmd_parts = <<>> THEN acc
    ELSE LET part == Head(cmd_parts)
             bash_var == Head(drawn)
             next ==
                 IF part.kind = "Text"
                 THEN [acc EXCEPT !.command = @ \o part.text]
                 ELSE [command |-> acc.command \o (<<"\"", "$">> \o bash_var \o <<"\"">>),
                       decls |-> acc.decls \cup {bash_var}]
         IN  ForEachPart(Tail(cmd_parts), Tail(drawn), next)

\* sanitize_command(section), given what strip_whitespace returned.
SanitizeStripped(stripped, drawn) ==
    IF stripped.some
    THEN [tag |-> "Some"] @@ ForEachPart(stripped.parts, drawn, [command |-> <<>>, decls |-> {}])
    ELSE [tag |-> "None", command |-> <<>>, decls |-> {}]

InitSanitize ==
    /\ FixerIdle
    /\ ShellIdle
    /\ ChunkIdle
    /\ StreamIdle
    /\ MapIdle
    /\ ProcIdle
    /\ callee = "sanitize_command"
    /\ arguments \in StrippedCommands
    /\ returned = [tag |-> "pending"]

\* The handler calls sanitize_command(section).
SanitizeCall ==
    /\ callee = "sanitize_command"
    /\ returned.tag = "pending"
    /\ \E drawn \in Samples(arguments.parts) : returned' = SanitizeStripped(arguments, drawn)
    /\ UNCHANGED <<callee, arguments, notStd>>

NextSanitize == SanitizeCall

SpecSanitize == InitSanitize /\ [][NextSanitize]_vars

RECURSIVE OffsetOf(_, _)
\* The offset of the i-th stripped part in the stripped source.
OffsetOf(cmd_parts, i) ==
    IF i = 1 THEN 0 ELSE OffsetOf(cmd_parts, i - 1) + Len(cmd_parts[i - 1].text)

\* C32: in the sanitized command every placeholder is replaced by a quoted
\* $-expansion as long as the placeholder, of a name three characters
\* shorter, so every Text stands at the offset it has in the source, and
\* every name is in the returned set.
C32_ExpansionKeepsLength ==
    (callee = "sanitize_command" /\ returned.tag = "Some") =>
        LET cmd_parts == arguments.parts
            command == returned.command
        IN  /\ Len(command) = OffsetOf(cmd_parts, Len(cmd_parts) + 1)
            /\ \A i \in 1..Len(cmd_parts) :
                   LET start == OffsetOf(cmd_parts, i)
                       width == Len(cmd_parts[i].text)
                       here == SubSeq(command, start + 1, start + width)
                   IN  IF cmd_parts[i].kind = "Text"
                       THEN here = cmd_parts[i].text
                       ELSE /\ here[1] = "\"" /\ here[2] = "$" /\ here[width] = "\""
                            /\ SubSeq(here, 3, width - 1) \in returned.decls
                            /\ Len(SubSeq(here, 3, width - 1)) = width - 3
                            /\ \A k \in 3..(width - 1) : here[k] \in Alphanumeric
            /\ Cardinality(returned.decls) <=
                   Cardinality({ i \in 1..Len(cmd_parts) : cmd_parts[i].kind = "Placeholder" })

\* Two placeholders of different lengths with text behind each.
C32_Witness ==
    /\ callee = "sanitize_command"
    /\ returned.tag = "Some"
    /\ Len(arguments.parts) = 3
    /\ arguments.parts[1].text = <<"~", "{", "p", "}">>
    /\ arguments.parts[2].text = <<SP, "e", LF, "e">>
    /\ arguments.parts[3].text = <<"$", "{", "p", "q", "}">>
    /\ returned.command = <<"\"", "$", "A", "\"", SP, "e", LF, "e", "\"", "$", "7", "A", "\"">>
    /\ returned.decls = {<<"A">>, <<"7", "A">>}
====
